---- MODULE Spec2Model ----
(***************************************************************************)
(* Aegis Discord bot (src/bot.py): per-guild configuration file, the       *)
(* /setup wizard (SetupView), the access check (can_use_commands) and the  *)
(* two guided actions /roe and /declare with their text modal.             *)
(***************************************************************************)
EXTENDS Integers, Sequences, FiniteSets, TLC

VARIABLES
    file,          \* config/<guild id>.json : <<>> when absent, <<text>> when present
    liveRoles,     \* role ids that guild.get_role resolves
    liveChannels,  \* text channel ids that guild.get_channel resolves
    wiz,           \* the SetupView objects, one per opened panel
    flow,          \* the /roe or /declare invocation and its LongReasonModal
    sent,          \* messages delivered to channels, in order
    resp,          \* last interaction handled: <<user id, response text, handler raised>>
    edits,         \* per panel slot, the select interactions handled so far
    auth           \* inputs and result of a stand-alone can_use_commands call

vars == <<file, liveRoles, liveChannels, wiz, flow, sent, resp, edits, auth>>

(***************************************************************************)
(* Bounds and the guild the model runs in.                                 *)
(***************************************************************************)
MaxEdits == 2      \* select interactions handled per panel slot
MaxListLen == 2    \* longest role list submitted or stored

\* The snowflake ids of one guild: its @everyone role has the guild's id,
\* two further roles, two text channels, two administrators, one ordinary
\* member and the member reported by /roe.
Snowflakes ==
    [guild |-> 10, r1 |-> 11, r2 |-> 12, ch1 |-> 21, ch2 |-> 22,
     admin1 |-> 31, admin2 |-> 32, member1 |-> 33, offender |-> 34]
GuildId == Snowflakes.guild
DefaultRole == GuildId
R1 == Snowflakes.r1
R2 == Snowflakes.r2
Roles == {R1, R2}
Ch1 == Snowflakes.ch1
Ch2 == Snowflakes.ch2
Channels == {Ch1, Ch2}
Admin1 == Snowflakes.admin1
Admin2 == Snowflakes.admin2
Member1 == Snowflakes.member1
Admins == {Admin1, Admin2}
Users == {Admin1, Admin2, Member1}
Offender == Snowflakes.offender
SetupUsers == {Admin1, Member1}   \* who types /setup
Times == {100}
Texts == {"spawn camping", "@everyone raid"}
Sessions == {1, 2}               \* slots for panels that are open at the same time
Panels == {1}                    \* the slot used when one admin configures the guild

(***************************************************************************)
(* Python values.  None, int and list are tagged so that a field holding   *)
(* None differs from a field holding [] or 0; a dict is a function from    *)
(* its keys.                                                               *)
(***************************************************************************)
PyNone == <<"None">>
PyInt(n) == <<"int", n>>
PyList(s) == <<"list", s>>
IsNone(v) == v[1] = "None"
EmptyDict == <<>>

\* Python truthiness of None / int / list, as used by "if not x".
Truthy(v) ==
    CASE v[1] = "None" -> FALSE
      [] v[1] = "int"  -> v[2] # 0
      [] v[1] = "list" -> Len(v[2]) > 0

\* dict.get(key, default)
dict_get(d, key, default) == IF key \in DOMAIN d THEN d[key] ELSE default

Range(s) == {s[i] : i \in 1..Len(s)}

\* All sequences over S without repetition, of length at most n.
DistinctSeqs(S, n) ==
    {s \in UNION {[1..k -> S] : k \in 0..n} :
        \A i, j \in 1..Len(s) : i # j => s[i] # s[j]}

(***************************************************************************)
(* str(int) and int(str) on decimal strings; a string is the sequence of   *)
(* its characters.                                                         *)
(***************************************************************************)
Digits == <<"0", "1", "2", "3", "4", "5", "6", "7", "8", "9">>

RECURSIVE str(_)
str(n) == IF n < 10 THEN <<Digits[n + 1]>>
          ELSE str(n \div 10) \o <<Digits[(n % 10) + 1]>>

DigitVal(c) == (CHOOSE i \in 1..10 : Digits[i] = c) - 1

RECURSIVE int(_)
int(s) == IF Len(s) = 1 THEN DigitVal(s[1])
          ELSE 10 * int(SubSeq(s, 1, Len(s) - 1)) + DigitVal(s[Len(s)])

NoneStr == <<"n", "o", "n", "e">>

(***************************************************************************)
(* json.dumps / json.loads on the configuration dict.                      *)
(***************************************************************************)
\* json.dumps that writes None as the number 0
json_dumps_zero(d) ==
    [k \in DOMAIN d |->
        CASE d[k][1] = "None" -> <<"number", str(0)>>
          [] d[k][1] = "int"  -> <<"number", str(d[k][2])>>
          [] d[k][1] = "list" -> <<"array", [i \in 1..Len(d[k][2]) |-> str(d[k][2][i])]>>]

json_dumps(d) ==
    [k \in DOMAIN d |->
        CASE d[k][1] = "None" -> <<"null">>
          [] d[k][1] = "int"  -> <<"number", str(d[k][2])>>
          [] d[k][1] = "list" -> <<"array", [i \in 1..Len(d[k][2]) |-> str(d[k][2][i])]>>]

json_loads(t) ==
    [k \in DOMAIN t |->
        CASE t[k][1] = "null"   -> PyNone
          [] t[k][1] = "number" -> PyInt(int(t[k][2]))
          [] t[k][1] = "array"  -> PyList([i \in 1..Len(t[k][2]) |-> int(t[k][2][i])])]

\* The file is <<>> (absent), <<"json", text>> (a complete document) or
\* <<"partial">> (a write that was cut short, which json.loads rejects).
NoFile == <<>>
PartialFile == <<"partial">>

\* load_cfg: {} when the file is absent or does not parse, else the parsed record.
load_cfg(f) ==
    IF Len(f) > 0
    THEN IF f[1] = "json" THEN json_loads(f[2]) ELSE EmptyDict
    ELSE EmptyDict

\* save_cfg: the file after write_text(json.dumps(data)) returned.
save_cfg(data) == <<"json", json_dumps(data)>>

(***************************************************************************)
(* Access policy.                                                          *)
(***************************************************************************)
MsgNotConfigured == "No allowed roles are configured yet. Ask an admin to run /setup."
MsgUseInServer == "Use this in a server."
MsgMissingRole == "You do not have a required role to use this command."
MsgExcluded == "Your role is excluded from using this command."

\* member_has_any_role with all() in place of any()
member_has_any_role_all(member_roles, role_ids) ==
    IF ~Truthy(role_ids) THEN FALSE
    ELSE \A i \in 1..Len(role_ids[2]) : role_ids[2][i] \in member_roles

\* member_has_any_role(member, role_ids); role_ids is a Python list or None
member_has_any_role(member_roles, role_ids) ==
    IF ~Truthy(role_ids) THEN FALSE
    ELSE \E i \in 1..Len(role_ids[2]) : role_ids[2][i] \in member_roles

\* can_use_commands with the role test ahead of the "not configured" test
can_use_commands_role_first(is_member, member_roles, cfg) ==
    LET allowed == dict_get(cfg, "allowed_role_ids", PyList(<<>>))
        excluded == dict_get(cfg, "excluded_role_ids", PyList(<<>>))
    IN  IF ~is_member THEN <<FALSE, MsgUseInServer>>
        ELSE IF ~member_has_any_role(member_roles, allowed) THEN <<FALSE, MsgMissingRole>>
        ELSE IF ~Truthy(allowed) THEN <<FALSE, MsgNotConfigured>>
        ELSE IF Truthy(excluded) /\ member_has_any_role(member_roles, excluded)
             THEN <<FALSE, MsgExcluded>>
        ELSE <<TRUE, "">>

\* can_use_commands with the excluded test ahead of the required-role test
can_use_commands_excluded_first(is_member, member_roles, cfg) ==
    LET allowed == dict_get(cfg, "allowed_role_ids", PyList(<<>>))
        excluded == dict_get(cfg, "excluded_role_ids", PyList(<<>>))
    IN  IF ~Truthy(allowed) THEN <<FALSE, MsgNotConfigured>>
        ELSE IF ~is_member THEN <<FALSE, MsgUseInServer>>
        ELSE IF Truthy(excluded) /\ member_has_any_role(member_roles, excluded)
             THEN <<FALSE, MsgExcluded>>
        ELSE IF ~member_has_any_role(member_roles, allowed) THEN <<FALSE, MsgMissingRole>>
        ELSE <<TRUE, "">>

\* can_use_commands(member, cfg) -> (ok, reason)
can_use_commands(is_member, member_roles, cfg) ==
    LET allowed == dict_get(cfg, "allowed_role_ids", PyList(<<>>))
        excluded == dict_get(cfg, "excluded_role_ids", PyList(<<>>))
    IN  IF ~Truthy(allowed) THEN <<FALSE, MsgNotConfigured>>
        ELSE IF ~is_member THEN <<FALSE, MsgUseInServer>>
        ELSE IF ~member_has_any_role(member_roles, allowed) THEN <<FALSE, MsgMissingRole>>
        ELSE IF Truthy(excluded) /\ member_has_any_role(member_roles, excluded)
             THEN <<FALSE, MsgExcluded>>
        ELSE <<TRUE, "">>

(***************************************************************************)
(* Messages.  A mention is <<kind, id>>; every send carries the            *)
(* AllowedMentions it was given.                                           *)
(***************************************************************************)
RoleMention(r) == <<"role", r>>
UserMention(u) == <<"user", u>>
ChannelMention(c) == <<"channel", c>>
NotSet == <<"Not set">>

AllowedMentions(roles, users, everyone) ==
    [roles |-> roles, users |-> users, everyone |-> everyone]

\* get_role_mentions: mentions of the ids that still resolve, in list order
get_role_mentions(live_roles, role_ids) ==
    SelectSeq([i \in 1..Len(role_ids) |-> RoleMention(role_ids[i])],
              LAMBDA m : m[2] \in live_roles)

\* get_channel_mention: "Not set" for None or an id that no longer resolves
get_channel_mention(live_channels, channel_id) ==
    IF ~Truthy(channel_id) THEN NotSet
    ELSE IF channel_id[2] \in live_channels THEN ChannelMention(channel_id[2])
    ELSE NotSet

\* log_action that sends to the stored id without resolving it
log_action_unresolved(live_channels, cfg, content) ==
    LET log_channel_id == dict_get(cfg, "log_channel_id", PyNone)
    IN  IF ~Truthy(log_channel_id) THEN <<>>
        ELSE <<[ch |-> log_channel_id[2], kind |-> "audit", content |-> content,
                embed |-> <<"none">>,
                allowed_mentions |-> AllowedMentions(TRUE, TRUE, FALSE)]>>

\* log_action: the messages it hands to ch.send (none when the id is unset
\* or no longer resolves to a text channel).
log_action(live_channels, cfg, content) ==
    LET log_channel_id == dict_get(cfg, "log_channel_id", PyNone)
    IN  IF ~Truthy(log_channel_id) THEN <<>>
        ELSE IF log_channel_id[2] \in live_channels
             THEN <<[ch |-> log_channel_id[2], kind |-> "audit", content |-> content,
                     embed |-> <<"none">>,
                     allowed_mentions |-> AllowedMentions(TRUE, TRUE, FALSE)]>>
        ELSE <<>>

(***************************************************************************)
(* SetupView: the /setup wizard.                                           *)
(***************************************************************************)
MsgLocked == "This setup panel is locked to the admin who opened it."
MsgSelectLog == "Please select a **Log Channel**."
MsgSaved == "Configuration saved."
MsgCanceled == "Setup canceled. No changes saved."
MsgAdminOnly == "Admin only."
MsgSetup == "Server Setup"
MsgDeferred == "deferred"
MsgNoResponse == "no response"

NoView ==
    [state |-> "none", invoker |-> 0, cfg |-> EmptyDict,
     role_opts |-> {}, channel_opts |-> {},
     allowed_select |-> <<>>, excluded_select |-> <<>>, admiral_select |-> <<>>,
     war_select |-> <<>>, log_select |-> <<>>]

\* SetupView.__init__: copy of the loaded cfg, options from the live guild,
\* no select has values until the user interacts with it.
SetupView(live_roles, live_channels, cfg, invoker) ==
    [NoView EXCEPT !.state = "open", !.invoker = invoker, !.cfg = cfg,
                   !.role_opts = live_roles, !.channel_opts = live_channels]

\* The values a user can submit for each select of a view.
SelectValues(view, field) ==
    CASE field \in {"allowed_select", "excluded_select"} ->
            DistinctSeqs({str(r) : r \in view.role_opts}, MaxListLen)
      [] field = "admiral_select" ->
            {<<>>, <<NoneStr>>} \cup {<<str(r)>> : r \in view.role_opts}
      [] field = "war_select" ->
            {<<>>, <<NoneStr>>} \cup {<<str(c)>> : c \in view.channel_opts}
      [] field = "log_select" ->
            {<<str(c)>> : c \in view.channel_opts}

Fields == {"allowed_select", "excluded_select", "admiral_select", "war_select", "log_select"}

\* interaction_check that lets everybody through
interaction_check_open(view, user) == TRUE

\* SetupView.interaction_check
interaction_check(view, user) ==
    IF user = view.invoker THEN TRUE
    ELSE IF user \in Admins THEN TRUE
    ELSE FALSE

\* the dict SetupView.save assembles from the selects
new_cfg(view, user, now) ==
    LET allowed == [i \in 1..Len(view.allowed_select) |-> int(view.allowed_select[i])]
        excluded == [i \in 1..Len(view.excluded_select) |-> int(view.excluded_select[i])]
        admiral_role_id ==
            IF Len(view.admiral_select) > 0 /\ view.admiral_select[1] # NoneStr
            THEN PyInt(int(view.admiral_select[1])) ELSE PyNone
        war_channel_id ==
            IF Len(view.war_select) > 0 /\ view.war_select[1] # NoneStr
            THEN PyInt(int(view.war_select[1])) ELSE PyNone
        log_channel_id == PyInt(int(view.log_select[1]))
    IN  [allowed_role_ids |-> PyList(allowed),
         excluded_role_ids |-> PyList(excluded),
         admiral_role_id |-> admiral_role_id,
         war_channel_id |-> war_channel_id,
         log_channel_id |-> log_channel_id,
         updated_by |-> PyInt(user),
         updated_at |-> PyInt(now)]

\* the summary text of a saved configuration
summary(live_roles, live_channels, cfg) ==
    [allowed |-> get_role_mentions(live_roles, cfg.allowed_role_ids[2]),
     excluded |-> get_role_mentions(live_roles, cfg.excluded_role_ids[2]),
     admiral |-> IF Truthy(cfg.admiral_role_id) /\ cfg.admiral_role_id[2] \in live_roles
                 THEN RoleMention(cfg.admiral_role_id[2]) ELSE NotSet,
     war |-> get_channel_mention(live_channels, cfg.war_channel_id),
     log |-> get_channel_mention(live_channels, cfg.log_channel_id)]

\* admin_only: the predicate guarding /setup
admin_only(user) == user \in Admins

\* /setup: a new SetupView is built and shown; s is a slot holding no live panel
setup_cmd(u, s) ==
    IF ~admin_only(u)
    THEN /\ resp' = <<u, MsgAdminOnly, FALSE>>
         /\ UNCHANGED <<file, liveRoles, liveChannels, wiz, flow, sent, edits, auth>>
    ELSE /\ wiz[s].state # "open"
         /\ wiz' = [wiz EXCEPT ![s] = SetupView(liveRoles, liveChannels, load_cfg(file), u)]
         /\ resp' = <<u, MsgSetup, FALSE>>
         /\ UNCHANGED <<file, liveRoles, liveChannels, flow, sent, edits, auth>>

\* a select callback that writes the selection through to the guild's file
select_callback_writes_through(s, u, field, vals) ==
    /\ wiz[s].state = "open"
    /\ edits[s] < MaxEdits
    /\ interaction_check(wiz[s], u)
    /\ vals \in SelectValues(wiz[s], field)
    /\ wiz' = [wiz EXCEPT ![s][field] = vals]
    /\ edits' = [edits EXCEPT ![s] = @ + 1]
    /\ file' = save_cfg([allowed_role_ids |->
                            PyList([i \in 1..Len(wiz'[s].allowed_select) |->
                                       int(wiz'[s].allowed_select[i])])])
    /\ resp' = <<u, MsgDeferred, FALSE>>
    /\ UNCHANGED <<liveRoles, liveChannels, flow, sent, auth>>

\* RolesSelect.callback / ChannelsSelect.callback: the callback only defers;
\* the submitted values become the select's .values, which save reads.  The
\* values are taken over for an interaction that passes interaction_check.
select_callback(s, u, field, vals) ==
    /\ wiz[s].state = "open"
    /\ edits[s] < MaxEdits
    /\ IF ~interaction_check(wiz[s], u)
       THEN /\ resp' = <<u, MsgLocked, FALSE>>
            /\ UNCHANGED <<file, liveRoles, liveChannels, wiz, flow, sent, edits, auth>>
       ELSE /\ vals \in SelectValues(wiz[s], field)
            /\ wiz' = [wiz EXCEPT ![s][field] = vals]
            /\ edits' = [edits EXCEPT ![s] = @ + 1]
            /\ resp' = <<u, MsgDeferred, FALSE>>
            /\ UNCHANGED <<file, liveRoles, liveChannels, flow, sent, auth>>

\* save that writes the record before it looks at the log channel
save_checks_late(s, u, now, write, audit_ok) ==
    /\ wiz[s].state = "open"
    /\ interaction_check(wiz[s], u)
    /\ write = "ok" /\ audit_ok
    /\ file' = save_cfg([updated_by |-> PyInt(u), updated_at |-> PyInt(now)])
    /\ resp' = <<u, IF Len(wiz[s].log_select) = 0 THEN MsgSelectLog ELSE MsgSaved, FALSE>>
    /\ wiz' = [wiz EXCEPT ![s].state = IF Len(wiz[s].log_select) = 0 THEN "open" ELSE "saved"]
    /\ UNCHANGED <<liveRoles, liveChannels, flow, sent, edits, auth>>

\* save that sends the audit entry before it writes the record
save_audits_first(s, u, now, write, audit_ok) ==
    /\ wiz[s].state = "open"
    /\ interaction_check(wiz[s], u)
    /\ Len(wiz[s].log_select) > 0
    /\ audit_ok
    /\ LET cfg == new_cfg(wiz[s], u, now)
       IN  /\ sent' = sent \o log_action(liveChannels, cfg,
                                         <<"Configuration updated", UserMention(u),
                                           summary(liveRoles, liveChannels, cfg)>>)
           /\ file' = IF write = "ok" THEN save_cfg(cfg)
                      ELSE IF write = "partial" THEN PartialFile ELSE file
           /\ wiz' = [wiz EXCEPT ![s].state = IF write = "ok" THEN "saved" ELSE "open"]
           /\ resp' = IF write = "ok" THEN <<u, MsgSaved, FALSE>> ELSE <<u, MsgNoResponse, TRUE>>
    /\ UNCHANGED <<liveRoles, liveChannels, flow, edits, auth>>

\* save that keeps the stored value of every field its own select leaves empty
save_merges(s, u, now, write, audit_ok) ==
    /\ wiz[s].state = "open"
    /\ interaction_check(wiz[s], u)
    /\ Len(wiz[s].log_select) > 0
    /\ write = "ok" /\ audit_ok
    /\ LET cfg == new_cfg(wiz[s], u, now)
           old == load_cfg(file)
           merged == [k \in DOMAIN cfg |->
                         IF ~Truthy(cfg[k]) /\ k \in DOMAIN old THEN old[k] ELSE cfg[k]]
       IN  /\ file' = save_cfg(merged)
           /\ sent' = sent \o log_action(liveChannels, merged,
                                         <<"Configuration updated", UserMention(u),
                                           summary(liveRoles, liveChannels, merged)>>)
    /\ wiz' = [wiz EXCEPT ![s].state = "saved"]
    /\ resp' = <<u, MsgSaved, FALSE>>
    /\ UNCHANGED <<liveRoles, liveChannels, flow, edits, auth>>

\* SetupView.save.  write is the outcome of write_text: "ok", "unopened" (it
\* raised before touching the file) or "partial" (it raised after truncating
\* it); audit_ok tells whether the send to the log channel succeeds.
save(s, u, now, write, audit_ok) ==
    /\ wiz[s].state = "open"
    /\ IF ~interaction_check(wiz[s], u)
       THEN /\ resp' = <<u, MsgLocked, FALSE>>
            /\ UNCHANGED <<file, liveRoles, liveChannels, wiz, flow, sent, edits, auth>>
       ELSE IF Len(wiz[s].log_select) = 0
       THEN /\ resp' = <<u, MsgSelectLog, FALSE>>
            /\ UNCHANGED <<file, liveRoles, liveChannels, wiz, flow, sent, edits, auth>>
       ELSE IF write # "ok"
       THEN /\ file' = IF write = "partial" THEN PartialFile ELSE file
            /\ resp' = <<u, MsgNoResponse, TRUE>>
            /\ UNCHANGED <<liveRoles, liveChannels, wiz, flow, sent, edits, auth>>
       ELSE LET cfg == new_cfg(wiz[s], u, now)
                audit == log_action(liveChannels, cfg,
                            <<"Configuration updated", UserMention(u),
                              summary(liveRoles, liveChannels, cfg)>>)
            IN  /\ file' = save_cfg(cfg)
                /\ wiz' = [wiz EXCEPT ![s].state = "saved"]
                /\ IF Len(audit) > 0 /\ ~audit_ok
                   THEN /\ resp' = <<u, MsgSaved, TRUE>>
                        /\ sent' = sent
                   ELSE /\ resp' = <<u, MsgSaved, FALSE>>
                        /\ sent' = sent \o audit
                /\ UNCHANGED <<liveRoles, liveChannels, flow, edits, auth>>

\* cancel that commits the selections made so far
cancel_commits(s, u) ==
    /\ wiz[s].state = "open"
    /\ wiz' = [wiz EXCEPT ![s].state = "cancelled"]
    /\ file' = save_cfg([allowed_role_ids |->
                            PyList([i \in 1..Len(wiz[s].allowed_select) |->
                                       int(wiz[s].allowed_select[i])])])
    /\ resp' = <<u, MsgCanceled, FALSE>>
    /\ UNCHANGED <<liveRoles, liveChannels, flow, sent, edits, auth>>

\* SetupView.cancel
cancel(s, u) ==
    /\ wiz[s].state = "open"
    /\ IF ~interaction_check(wiz[s], u)
       THEN /\ resp' = <<u, MsgLocked, FALSE>>
            /\ UNCHANGED <<file, liveRoles, liveChannels, wiz, flow, sent, edits, auth>>
       ELSE /\ wiz' = [wiz EXCEPT ![s].state = "cancelled"]
            /\ resp' = <<u, MsgCanceled, FALSE>>
            /\ UNCHANGED <<file, liveRoles, liveChannels, flow, sent, edits, auth>>

\* The view's idle timeout (timeout=600): the library stops dispatching to it.
view_timeout(s) ==
    /\ wiz[s].state = "open"
    /\ wiz' = [wiz EXCEPT ![s].state = "expired"]
    /\ UNCHANGED <<file, liveRoles, liveChannels, flow, sent, resp, edits, auth>>

(***************************************************************************)
(* Guided actions: /roe and /declare, each followed by LongReasonModal.    *)
(***************************************************************************)
MsgModal == "Provide Details"
MsgPosted == "Posted"
FlowUsers == {Member1}

NoFlow ==
    [pc |-> "idle", kind |-> "none", user |-> 0, roles |-> {}, target |-> 0, channel |-> 0,
     cfg |-> EmptyDict, admiral_role |-> PyNone, war_channel |-> PyNone, reason |-> ""]

\* require_configured_access that lets every member through
require_configured_access_open(f, member_roles) == <<TRUE, "">>

\* require_configured_access: load_cfg, then can_use_commands on the invoker
require_configured_access(f, member_roles) == can_use_commands(TRUE, member_roles, load_cfg(f))

\* guild.get_role / guild.get_channel on an optional id: the object or None
get_role(live_roles, role_id) ==
    IF Truthy(role_id) /\ role_id[2] \in live_roles THEN role_id ELSE PyNone

get_channel(live_channels, channel_id) ==
    IF Truthy(channel_id) /\ channel_id[2] \in live_channels THEN channel_id ELSE PyNone

\* a post sent with the default mention scope (everyone allowed)
public_post_everyone(kind, ch, content, embed) ==
    [ch |-> ch, kind |-> kind, content |-> content, embed |-> embed,
     allowed_mentions |-> AllowedMentions(TRUE, TRUE, TRUE)]

\* channel.send(...) of the three public posts
public_post(kind, ch, content, embed) ==
    [ch |-> ch, kind |-> kind, content |-> content, embed |-> embed,
     allowed_mentions |-> AllowedMentions(TRUE, TRUE, FALSE)]

\* /roe: the access check, then the command body up to send_modal
roe(u, member_roles, target, ch) ==
    /\ flow.pc = "idle"
    /\ LET r == require_configured_access(file, member_roles)
       IN  IF ~r[1]
           THEN /\ flow' = [NoFlow EXCEPT !.pc = "denied", !.kind = "roe", !.user = u,
                                           !.roles = member_roles]
                /\ resp' = <<u, r[2], FALSE>>
           ELSE /\ flow' = [NoFlow EXCEPT !.pc = "modal", !.kind = "roe", !.user = u,
                                           !.roles = member_roles, !.target = target,
                                           !.channel = ch, !.cfg = load_cfg(file)]
                /\ resp' = <<u, MsgModal, FALSE>>
    /\ UNCHANGED <<file, liveRoles, liveChannels, wiz, sent, edits, auth>>

\* /declare: the access check, then the command body up to send_modal
declare(u, member_roles, target, ch) ==
    /\ flow.pc = "idle"
    /\ LET r == require_configured_access(file, member_roles)
           cfg == load_cfg(file)
       IN  IF ~r[1]
           THEN /\ flow' = [NoFlow EXCEPT !.pc = "denied", !.kind = "declare", !.user = u,
                                           !.roles = member_roles]
                /\ resp' = <<u, r[2], FALSE>>
           ELSE /\ flow' = [NoFlow EXCEPT
                                !.pc = "modal", !.kind = "declare", !.user = u,
                                !.roles = member_roles, !.target = target,
                                !.channel = ch, !.cfg = cfg,
                                !.admiral_role =
                                    get_role(liveRoles, dict_get(cfg, "admiral_role_id", PyNone)),
                                !.war_channel =
                                    get_channel(liveChannels, dict_get(cfg, "war_channel_id", PyNone))]
                /\ resp' = <<u, MsgModal, FALSE>>
    /\ UNCHANGED <<file, liveRoles, liveChannels, wiz, sent, edits, auth>>

\* after_modal_submit that writes the audit entry before the public post
roe_after_modal_submit_audit_first(reason_text, now, fails) ==
    /\ flow.pc = "modal" /\ flow.kind = "roe"
    /\ fails = {}
    /\ flow.channel \in liveChannels
    /\ flow' = [flow EXCEPT !.pc = "done", !.reason = reason_text]
    /\ resp' = <<flow.user, MsgPosted, FALSE>>
    /\ sent' = (sent \o log_action(liveChannels, flow.cfg,
                                    <<"RoE reported", UserMention(flow.user),
                                      UserMention(Offender), RoleMention(flow.target),
                                      ChannelMention(flow.channel)>>))
                \o <<public_post("roe", flow.channel, <<RoleMention(flow.target)>>,
                                 <<"RoE Violation Report", UserMention(Offender),
                                   UserMention(flow.user), reason_text, now>>)>>
    /\ UNCHANGED <<file, liveRoles, liveChannels, wiz, edits, auth>>

\* roe.after_modal_submit, run by LongReasonModal.on_submit.  fails is the
\* set of sends ("here", "war", "audit") the platform refuses; a send to a
\* deleted channel is refused too.
roe_after_modal_submit(reason_text, now, fails) ==
    /\ flow.pc = "modal" /\ flow.kind = "roe"
    /\ LET u == flow.user
           embed == <<"RoE Violation Report", UserMention(Offender), UserMention(u),
                      reason_text, now>>
           content == <<RoleMention(flow.target)>>
           msg == public_post("roe", flow.channel, content, embed)
           audit == log_action(liveChannels, flow.cfg,
                       <<"RoE reported", UserMention(u), UserMention(Offender),
                         RoleMention(flow.target), ChannelMention(flow.channel)>>)
       IN  IF "here" \in fails \/ flow.channel \notin liveChannels
           THEN /\ flow' = [flow EXCEPT !.pc = "raised", !.reason = reason_text]
                /\ resp' = <<u, MsgNoResponse, TRUE>>
                /\ sent' = sent
           ELSE IF Len(audit) > 0 /\ "audit" \in fails
           THEN /\ flow' = [flow EXCEPT !.pc = "raised", !.reason = reason_text]
                /\ resp' = <<u, MsgPosted, TRUE>>
                /\ sent' = Append(sent, msg)
           ELSE /\ flow' = [flow EXCEPT !.pc = "done", !.reason = reason_text]
                /\ resp' = <<u, MsgPosted, FALSE>>
                /\ sent' = Append(sent, msg) \o audit
    /\ UNCHANGED <<file, liveRoles, liveChannels, wiz, edits, auth>>

\* after_modal_submit that reads the stored configuration again on submission
declare_after_modal_submit_reloads(reason_text, now, fails) ==
    /\ flow.pc = "modal" /\ flow.kind = "declare"
    /\ fails = {}
    /\ flow.channel \in liveChannels
    /\ LET cfg == load_cfg(file)
           admiral_role == get_role(liveRoles, dict_get(cfg, "admiral_role_id", PyNone))
           content == IF ~IsNone(admiral_role)
                      THEN <<RoleMention(flow.target), RoleMention(admiral_role[2])>>
                      ELSE <<RoleMention(flow.target)>>
           here == public_post("declare", flow.channel, content,
                               <<"War Declaration", RoleMention(flow.target),
                                 UserMention(flow.user), reason_text, now>>)
       IN  sent' = Append(sent, here)
                      \o log_action(liveChannels, cfg,
                                    <<"War declared", UserMention(flow.user),
                                      RoleMention(flow.target), content,
                                      <<ChannelMention(flow.channel)>>>>)
    /\ flow' = [flow EXCEPT !.pc = "done", !.reason = reason_text]
    /\ resp' = <<flow.user, MsgPosted, FALSE>>
    /\ UNCHANGED <<file, liveRoles, liveChannels, wiz, edits, auth>>

\* declare.after_modal_submit, run by LongReasonModal.on_submit
declare_after_modal_submit(reason_text, now, fails) ==
    /\ flow.pc = "modal" /\ flow.kind = "declare"
    /\ LET u == flow.user
           embed == <<"War Declaration", RoleMention(flow.target), UserMention(u),
                      reason_text, now>>
           content == IF ~IsNone(flow.admiral_role)
                      THEN <<RoleMention(flow.target), RoleMention(flow.admiral_role[2])>>
                      ELSE <<RoleMention(flow.target)>>
           here == public_post("declare", flow.channel, content, embed)
           mirror == ~IsNone(flow.war_channel)
           there == public_post("declare_war", flow.war_channel[2], content, embed)
           msg_links == IF mirror
                        THEN <<ChannelMention(flow.channel), ChannelMention(flow.war_channel[2])>>
                        ELSE <<ChannelMention(flow.channel)>>
           posts == IF mirror THEN <<here, there>> ELSE <<here>>
           audit == log_action(liveChannels, flow.cfg,
                       <<"War declared", UserMention(u), RoleMention(flow.target),
                         content, msg_links>>)
       IN  IF "here" \in fails \/ flow.channel \notin liveChannels
           THEN /\ flow' = [flow EXCEPT !.pc = "raised", !.reason = reason_text]
                /\ resp' = <<u, MsgNoResponse, TRUE>>
                /\ sent' = sent
           ELSE IF mirror /\ ("war" \in fails \/ flow.war_channel[2] \notin liveChannels)
           THEN /\ flow' = [flow EXCEPT !.pc = "raised", !.reason = reason_text]
                /\ resp' = <<u, MsgNoResponse, TRUE>>
                /\ sent' = Append(sent, here)
           ELSE IF Len(audit) > 0 /\ "audit" \in fails
           THEN /\ flow' = [flow EXCEPT !.pc = "raised", !.reason = reason_text]
                /\ resp' = <<u, MsgPosted, TRUE>>
                /\ sent' = sent \o posts
           ELSE /\ flow' = [flow EXCEPT !.pc = "done", !.reason = reason_text]
                /\ resp' = <<u, MsgPosted, FALSE>>
                /\ sent' = sent \o posts \o audit
    /\ UNCHANGED <<file, liveRoles, liveChannels, wiz, edits, auth>>

\* a modal whose expiry posts the report with an empty reason
modal_timeout_posts ==
    /\ flow.pc = "modal"
    /\ flow' = [flow EXCEPT !.pc = "expired"]
    /\ sent' = Append(sent, public_post(flow.kind, flow.channel,
                                        <<RoleMention(flow.target)>>, <<"none">>))
    /\ UNCHANGED <<file, liveRoles, liveChannels, wiz, resp, edits, auth>>

\* LongReasonModal's lifetime (timeout=300) ends without a submission.
modal_timeout ==
    /\ flow.pc = "modal"
    /\ flow' = [flow EXCEPT !.pc = "expired"]
    /\ UNCHANGED <<file, liveRoles, liveChannels, wiz, sent, resp, edits, auth>>

(***************************************************************************)
(* The guild changes under the bot: a role or a text channel is deleted.   *)
(* R1 and Ch1 stay, so the guild keeps at least one of each.               *)
(***************************************************************************)
delete_role(r) ==
    /\ r \in liveRoles /\ r # R1
    /\ liveRoles' = liveRoles \ {r}
    /\ UNCHANGED <<file, liveChannels, wiz, flow, sent, resp, edits, auth>>

delete_channel(c) ==
    /\ c \in liveChannels /\ c # Ch1
    /\ liveChannels' = liveChannels \ {c}
    /\ UNCHANGED <<file, liveRoles, wiz, flow, sent, resp, edits, auth>>

(***************************************************************************)
(* The bot serving one guild.                                              *)
(***************************************************************************)
NoAuth == [is_member |-> FALSE, roles |-> {}, cfg |-> EmptyDict, result |-> <<>>]

\* Records a /setup of an earlier run of the bot left on disk.
SeedA ==
    [allowed_role_ids |-> PyList(<<R1>>), excluded_role_ids |-> PyList(<<R2>>),
     admiral_role_id |-> PyInt(R2), war_channel_id |-> PyInt(Ch2),
     log_channel_id |-> PyInt(Ch1), updated_by |-> PyInt(Admin1), updated_at |-> PyInt(99)]

SeedB ==
    [allowed_role_ids |-> PyList(<<R2, R1>>), excluded_role_ids |-> PyList(<<>>),
     admiral_role_id |-> PyNone, war_channel_id |-> PyNone,
     log_channel_id |-> PyInt(Ch2), updated_by |-> PyInt(Admin2), updated_at |-> PyInt(99)]

InitFiles == {NoFile, save_cfg(SeedA), save_cfg(SeedB)}

Start ==
    /\ liveRoles = Roles
    /\ liveChannels = Channels
    /\ wiz = [s \in Sessions |-> NoView]
    /\ flow = NoFlow
    /\ sent = <<>>
    /\ resp = <<0, "", FALSE>>
    /\ edits = [s \in Sessions |-> 0]

InitWizard ==
    /\ file \in {NoFile, save_cfg(SeedA)}
    /\ Start
    /\ auth = NoAuth

Init ==
    /\ file \in InitFiles
    /\ liveRoles = Roles
    /\ liveChannels = Channels
    /\ wiz = [s \in Sessions |-> NoView]
    /\ flow = NoFlow
    /\ sent = <<>>
    /\ resp = <<0, "", FALSE>>
    /\ edits = [s \in Sessions |-> 0]
    /\ auth = NoAuth

\* The administrative path: /setup panels and the guild's channel list.
NextWizard ==
    \/ \E s \in Panels, u \in SetupUsers : setup_cmd(u, s)
    \/ \E s \in Panels, u \in Users, f \in Fields :
          \E vals \in SelectValues(wiz[s], f) : select_callback(s, u, f, vals)
    \/ \E s \in Panels, u \in Users, now \in Times,
          write \in {"ok", "unopened", "partial"}, audit_ok \in BOOLEAN :
          save(s, u, now, write, audit_ok)
    \/ \E s \in Panels, u \in Users : cancel(s, u)
    \/ \E s \in Panels : view_timeout(s)
    \/ \E c \in Channels : delete_channel(c)

SpecWizard == InitWizard /\ [][NextWizard]_vars

\* Two /setup panels of the same guild, each opened once by an administrator
\* and operated by its opener; the selects exercised are the allowed roles
\* and the log channel.
TwoFields == {"allowed_select", "log_select"}

NextTwoPanels ==
    \/ \E s \in Sessions, u \in Admins :
          wiz[s].state = "none" /\ setup_cmd(u, s)
    \/ \E s \in Sessions, f \in TwoFields :
          \E vals \in SelectValues(wiz[s], f) : select_callback(s, wiz[s].invoker, f, vals)
    \/ \E s \in Sessions, now \in Times, write \in {"ok", "partial"} :
          save(s, wiz[s].invoker, now, write, TRUE)
    \/ \E s \in Sessions : cancel(s, wiz[s].invoker)

SpecTwoPanels == InitWizard /\ [][NextTwoPanels]_vars

\* The privileged actions against a configuration left by an earlier /setup.
NextAction ==
    \/ \E u \in FlowUsers, member_roles \in SUBSET liveRoles,
          target \in liveRoles \cup {DefaultRole}, ch \in liveChannels :
          roe(u, member_roles \cup {DefaultRole}, target, ch)
    \/ \E u \in FlowUsers, member_roles \in SUBSET liveRoles,
          target \in liveRoles \cup {DefaultRole}, ch \in liveChannels :
          declare(u, member_roles \cup {DefaultRole}, target, ch)
    \/ \E t \in Texts, now \in Times, fails \in SUBSET {"here", "war", "audit"} :
          roe_after_modal_submit(t, now, fails)
    \/ \E t \in Texts, now \in Times, fails \in SUBSET {"here", "war", "audit"} :
          declare_after_modal_submit(t, now, fails)
    \/ modal_timeout
    \/ \E r \in Roles : delete_role(r)
    \/ \E c \in Channels : delete_channel(c)

SpecAction == Init /\ [][NextAction]_vars

\* One /setup panel, opened once by Admin1 and operated by Admin1, while
\* Member1 runs guided actions in Ch1 against whatever is stored.
NextLive ==
    \/ \E u \in SetupUsers : wiz[1].state = "none" /\ setup_cmd(u, 1)
    \/ \E f \in TwoFields :
          \E vals \in SelectValues(wiz[1], f) : select_callback(1, Admin1, f, vals)
    \/ \E now \in Times, write \in {"ok", "unopened", "partial"}, audit_ok \in BOOLEAN :
          save(1, Admin1, now, write, audit_ok)
    \/ cancel(1, Admin1)
    \/ view_timeout(1)
    \/ \E u \in FlowUsers, member_roles \in SUBSET liveRoles, target \in liveRoles :
          roe(u, member_roles \cup {DefaultRole}, target, Ch1)
    \/ \E u \in FlowUsers, member_roles \in SUBSET liveRoles, target \in liveRoles :
          declare(u, member_roles \cup {DefaultRole}, target, Ch1)
    \/ \E t \in Texts, now \in Times, fails \in SUBSET {"here", "war", "audit"} :
          roe_after_modal_submit(t, now, fails)
    \/ \E t \in Texts, now \in Times, fails \in SUBSET {"here", "war", "audit"} :
          declare_after_modal_submit(t, now, fails)
    \/ modal_timeout
    \/ \E r \in Roles : delete_role(r)
    \/ \E c \in Channels : delete_channel(c)

SpecLive == Init /\ [][NextLive]_vars

\* A guided action of Member1 in Ch1 with a /setup panel of Admin1 open at
\* the same time: every select of the panel, every send outcome, and the
\* guild's channels changing meanwhile.
NextSnapshot ==
    \/ wiz[1].state = "none" /\ setup_cmd(Admin1, 1)
    \/ \E f \in Fields :
          \E vals \in SelectValues(wiz[1], f) : select_callback(1, Admin1, f, vals)
    \/ \E now \in Times : save(1, Admin1, now, "ok", TRUE)
    \/ \E member_roles \in SUBSET liveRoles :
          roe(Member1, member_roles \cup {DefaultRole}, R1, Ch1)
    \/ \E member_roles \in SUBSET liveRoles :
          declare(Member1, member_roles \cup {DefaultRole}, R1, Ch1)
    \/ \E now \in Times, fails \in SUBSET {"here", "war", "audit"} :
          roe_after_modal_submit("spawn camping", now, fails)
    \/ \E now \in Times, fails \in SUBSET {"here", "war", "audit"} :
          declare_after_modal_submit("spawn camping", now, fails)
    \/ \E c \in Channels : delete_channel(c)

SpecSnapshot == Init /\ [][NextSnapshot]_vars

(***************************************************************************)
(* can_use_commands on its own: any member against any configuration dict. *)
(***************************************************************************)
RoleLists == UNION {[1..k -> Roles] : k \in 0..MaxListLen}

AuthCfgs ==
    {EmptyDict}
    \cup {[allowed_role_ids |-> PyList(a)] : a \in RoleLists}
    \cup {[excluded_role_ids |-> PyList(e)] : e \in RoleLists}
    \cup {[allowed_role_ids |-> PyList(a), excluded_role_ids |-> PyList(e)] :
              a \in RoleLists, e \in RoleLists}

InitAuth ==
    /\ file = NoFile
    /\ liveRoles = Roles
    /\ liveChannels = Channels
    /\ wiz = [s \in Sessions |-> NoView]
    /\ flow = NoFlow
    /\ sent = <<>>
    /\ resp = <<0, "", FALSE>>
    /\ edits = [s \in Sessions |-> 0]
    /\ \E m \in BOOLEAN, rs \in SUBSET Roles, c \in AuthCfgs :
          /\ (~m => rs = {})
          /\ auth = [is_member |-> m, roles |-> IF m THEN rs \cup {DefaultRole} ELSE {},
                     cfg |-> c, result |-> <<>>]

check_access ==
    /\ auth.result = <<>>
    /\ auth' = [auth EXCEPT !.result = can_use_commands(auth.is_member, auth.roles, auth.cfg)]
    /\ UNCHANGED <<file, liveRoles, liveChannels, wiz, flow, sent, resp, edits>>

NextAuth == check_access

SpecAuth == InitAuth /\ [][NextAuth]_vars

(***************************************************************************)
(* Properties of the access policy (checked under SpecAuth).               *)
(***************************************************************************)
AuthChecked == auth.result # <<>>

\* the list stored under key, as a set of role ids; {} when the key is absent
ListedRoles(cfg, key) == IF key \in DOMAIN cfg THEN Range(cfg[key][2]) ELSE {}

\* C1: whenever the allowed-role list of the configuration is empty or absent
\* (the dict load_cfg returns for a guild without a file included),
\* can_use_commands returns (False, "not configured"), whatever roles the
\* member holds and whatever the excluded-role list contains.
C1_NotConfiguredDenies ==
    /\ load_cfg(NoFile) \in AuthCfgs
    /\ (AuthChecked /\ ListedRoles(auth.cfg, "allowed_role_ids") = {})
          => auth.result = <<FALSE, MsgNotConfigured>>

C1_Witness ==
    /\ AuthChecked
    /\ "allowed_role_ids" \notin DOMAIN auth.cfg
    /\ ListedRoles(auth.cfg, "excluded_role_ids") = {R2}
    /\ auth.roles = {DefaultRole, R1, R2}
    /\ auth.result = <<FALSE, MsgNotConfigured>>

\* C2: a member holding a role that is in both the allowed-role list and the
\* excluded-role list is denied, even when the member also holds another
\* allowed role that is not excluded.
C2_ExclusionWins ==
    (AuthChecked /\ \E r \in auth.roles :
                        /\ r \in ListedRoles(auth.cfg, "allowed_role_ids")
                        /\ r \in ListedRoles(auth.cfg, "excluded_role_ids"))
      => auth.result[1] = FALSE

C2_Witness ==
    /\ AuthChecked
    /\ auth.roles = {DefaultRole, R1, R2}
    /\ ListedRoles(auth.cfg, "allowed_role_ids") = {R1, R2}
    /\ ListedRoles(auth.cfg, "excluded_role_ids") = {R2}
    /\ auth.result = <<FALSE, MsgExcluded>>

(***************************************************************************)
(* Properties of the /setup wizard (checked under SpecWizard).             *)
(***************************************************************************)
ValueIds(vals) == [i \in 1..Len(vals) |-> int(vals[i])]

\* the optional id a single-choice select stands for
ChosenId(vals) == IF vals = <<>> \/ vals = <<NoneStr>> THEN PyNone ELSE PyInt(int(vals[1]))

\* rec holds exactly the selections of view
RecordOf(view, rec) ==
    /\ DOMAIN rec = {"allowed_role_ids", "excluded_role_ids", "admiral_role_id",
                     "war_channel_id", "log_channel_id", "updated_by", "updated_at"}
    /\ rec["allowed_role_ids"] = PyList(ValueIds(view.allowed_select))
    /\ rec["excluded_role_ids"] = PyList(ValueIds(view.excluded_select))
    /\ rec["admiral_role_id"] = ChosenId(view.admiral_select)
    /\ rec["war_channel_id"] = ChosenId(view.war_select)
    /\ rec["log_channel_id"] = PyInt(int(view.log_select[1]))

Saves(s) == wiz[s].state = "open" /\ wiz'[s].state = "saved"

\* C3: while a panel is open with no log channel selected nothing is written
\* and no audit entry is sent; a Save in that state answers "Please select a
\* Log Channel" and leaves the panel open with every selection as it was;
\* a Save that succeeds happens with a log channel selected and stores the
\* selections the panel holds.
C3_SaveNeedsLogChannel ==
    [][\A s \in Panels :
         /\ (wiz[s].state = "open" /\ wiz[s].log_select = <<>>)
               => (file' = file /\ sent' = sent /\ wiz'[s].state # "saved")
         /\ (resp' # resp /\ resp'[2] = MsgSelectLog)
               => (wiz' = wiz /\ file' = file /\ sent' = sent
                   /\ wiz[s].state = "open" /\ wiz[s].log_select = <<>>)
         /\ Saves(s)
               => (wiz[s].log_select # <<>> /\ RecordOf(wiz[s], load_cfg(file')))]_vars

C3_Witness ==
    /\ wiz[1].state = "open"
    /\ wiz[1].log_select = <<>>
    /\ wiz[1].allowed_select # <<>>
    /\ resp = <<Admin1, MsgSelectLog, FALSE>>
    /\ load_cfg(file) = wiz[1].cfg
    /\ sent = <<>>

C8_CancelWritesNothing ==
    [][\A s \in Panels :
         (wiz[s].state = "open" /\ wiz'[s].state \in {"cancelled", "expired"})
            => (file' = file /\ sent' = sent)]_vars

C8_Witness ==
    /\ wiz[1].state = "cancelled"
    /\ wiz[1].allowed_select # <<>>
    /\ wiz[1].log_select # <<>>
    /\ load_cfg(file) = wiz[1].cfg
    /\ sent = <<>>

\* C9: a member who neither opened the panel nor is an administrator only
\* ever gets a rejection, and that step changes no panel, no file and sends
\* nothing; every change of an open panel other than its timeout, and every
\* write or audit entry, comes from the opener or an administrator.
Outsider(s, u) == u # wiz[s].invoker /\ u \notin Admins

Authorized(member_roles, cfg) ==
    /\ member_roles \cap ListedRoles(cfg, "allowed_role_ids") # {}
    /\ member_roles \cap ListedRoles(cfg, "excluded_role_ids") = {}

PastPhaseOne == flow.pc \in {"modal", "done", "raised", "expired"}

\* C5: the modal is open, or was, only for an invoker the stored
\* configuration authorizes, and messages exist only after a submission of
\* such a flow; a denied invoker got the private denial reason, no modal, no
\* message and no audit entry, and the stored configuration stays as it was.
C5_PhaseTwoNeedsAuthorization ==
    /\ [](PastPhaseOne => Authorized(flow.roles, load_cfg(file)))
    /\ [](sent # <<>> => flow.pc \in {"done", "raised"})
    /\ [](flow.pc = "denied" =>
            /\ ~Authorized(flow.roles, load_cfg(file))
            /\ sent = <<>>
            /\ resp[1] = flow.user
            /\ resp[2] \in {MsgNotConfigured, MsgMissingRole, MsgExcluded})
    /\ [][flow'.pc = "denied" => (file' = file /\ sent' = sent)]_vars
    /\ [][file' = file]_vars

C5_Witness ==
    /\ flow.pc = "denied"
    /\ flow.roles = {DefaultRole, R1, R2}
    /\ R1 \in ListedRoles(load_cfg(file), "allowed_role_ids")
    /\ R2 \in ListedRoles(load_cfg(file), "excluded_role_ids")
    /\ resp = <<Member1, MsgExcluded, FALSE>>
    /\ sent = <<>>

\* C6: once the modal has expired without a submission no message has been
\* sent and none is sent later; the list of sent messages grows only in the
\* step that handles a submission of the open modal.
C6_AbandonedModalPostsNothing ==
    /\ [](flow.pc = "expired" => sent = <<>>)
    /\ [][flow.pc = "expired" => (sent' = sent /\ flow' = flow)]_vars
    /\ [][sent' # sent => (flow.pc = "modal" /\ flow'.pc \in {"done", "raised"})]_vars

C6_Witness ==
    /\ flow.pc = "expired"
    /\ flow.kind = "declare"
    /\ ~IsNone(flow.war_channel)
    /\ Truthy(dict_get(flow.cfg, "log_channel_id", PyNone))
    /\ sent = <<>>

\* C7: every message sent to a channel (report, declaration, its mirror in
\* the war channel, audit entry) carries allowed mentions with roles and
\* users enabled and everyone disabled, also when the target role is the
\* guild's default role and whatever the text.
C7_NoEveryoneMention ==
    \A i \in 1..Len(sent) :
        sent[i].allowed_mentions = [roles |-> TRUE, users |-> TRUE, everyone |-> FALSE]

C7_Witness ==
    /\ Len(sent) = 3
    /\ sent[1].kind = "declare"
    /\ sent[1].content[1] = RoleMention(DefaultRole)
    /\ sent[1].embed[4] = "@everyone raid"
    /\ sent[2].kind = "declare_war"
    /\ sent[3].kind = "audit"

LogChannel(cfg) == dict_get(cfg, "log_channel_id", PyNone)

RoeSubmitted == flow.pc = "modal" /\ flow.kind = "roe" /\ flow'.pc \in {"done", "raised"}

\* C10: the step that handles the submission of a /roe modal appends at most
\* the public post followed by the audit entry; when the handler runs to its
\* end (every send accepted) with the audit channel configured and live it
\* appends exactly the post in the invoking channel (pinging the target
\* role, naming offender and reporter, carrying the submitted text) and then
\* one audit entry in the audit channel.
C10_RoeOnePostThenAudit ==
    [][RoeSubmitted =>
         LET n == Len(sent)
             cfg == load_cfg(file)
             IsPost(m) == /\ m.kind = "roe"
                          /\ m.ch = flow.channel
                          /\ m.content = <<RoleMention(flow.target)>>
                          /\ m.embed[2] = UserMention(Offender)
                          /\ m.embed[3] = UserMention(flow.user)
                          /\ m.embed[4] = flow'.reason
                          /\ flow'.reason \in Texts
             IsAudit(m) == m.kind = "audit" /\ PyInt(m.ch) = LogChannel(cfg)
         IN  /\ Len(sent') \in n..(n + 2)
             /\ SubSeq(sent', 1, n) = sent
             /\ Len(sent') >= n + 1 => IsPost(sent'[n + 1])
             /\ Len(sent') = n + 2 => IsAudit(sent'[n + 2])
             /\ (flow'.pc = "done" /\ Truthy(LogChannel(cfg))
                   /\ LogChannel(cfg)[2] \in liveChannels)
                  => Len(sent') = n + 2]_vars

C10_Witness ==
    /\ flow.pc = "done"
    /\ flow.kind = "roe"
    /\ flow.reason = "spawn camping"
    /\ Len(sent) = 2
    /\ sent[1].kind = "roe"
    /\ sent[1].embed[4] = "spawn camping"
    /\ sent[2].kind = "audit"
    /\ sent[2].ch \in liveChannels

(***************************************************************************)
(* The audit trail under failure (checked under SpecAction).               *)
(***************************************************************************)
\* C11 (as claimed): a handler that has given its success response ("Posted",
\* "Configuration saved") never ends in an error: a refused send to the
\* audit channel is swallowed.
C11_AuditFailureSwallowed ==
    resp[2] \in {MsgPosted, MsgSaved} => (~resp[3] /\ flow.pc # "raised")

\* no audit destination: the id is unset, or it names no live text channel
NoAuditDestination(live_channels, cfg) ==
    \/ ~Truthy(LogChannel(cfg))
    \/ LogChannel(cfg)[2] \notin live_channels

LogCfgs ==
    {EmptyDict, [log_channel_id |-> PyNone]}
    \cup {[log_channel_id |-> PyInt(c)] : c \in Channels}
    \cup {SeedA, SeedB}

Submitted == flow.pc = "modal" /\ flow'.pc \in {"done", "raised"}

\* C12: log_action hands nothing to send when the configuration has no audit
\* channel id or the id names no live text channel; a submission handled in
\* that situation appends no audit entry and, once its public posts are out
\* and the invoker is answered "Posted", runs to its end without an error,
\* whether or not the platform would have refused an audit send.
C12_NoAuditDestinationIsNoOp ==
    /\ \A live \in SUBSET Channels, cfg \in LogCfgs, t \in Texts :
          NoAuditDestination(live, cfg) => log_action(live, cfg, <<t>>) = <<>>
    /\ [][(Submitted /\ NoAuditDestination(liveChannels, flow.cfg)) =>
             /\ \A i \in (Len(sent) + 1)..Len(sent') : sent'[i].kind # "audit"
             /\ resp'[2] = MsgPosted => (flow'.pc = "done" /\ ~resp'[3])
             /\ flow'.pc = "raised" => resp'[2] = MsgNoResponse]_vars

C12_Witness ==
    /\ flow.pc = "done"
    /\ Truthy(LogChannel(flow.cfg))
    /\ LogChannel(flow.cfg)[2] \notin liveChannels
    /\ resp = <<Member1, MsgPosted, FALSE>>
    /\ Len(sent) = 1
    /\ sent[1].kind \in {"roe", "declare"}

(***************************************************************************)
(* Write and audit entry of a Save (checked under SpecWizard).             *)
(***************************************************************************)
\* the audit entry SetupView.save sends for the record rec
SaveAudit(m, rec) ==
    /\ m.kind = "audit"
    /\ PyInt(m.ch) = rec["log_channel_id"]
    /\ m.content[1] = "Configuration updated"
    /\ PyInt(m.content[2][2]) = rec["updated_by"]

\* C13 (as claimed): every Save that stores the record and runs to its end
\* emits exactly one audit entry.
C13_ExactlyOneAuditPerSave ==
    [][\A s \in Panels :
         (Saves(s) /\ ~resp'[3]) => Len(sent') = Len(sent) + 1]_vars

\* C13 (amended): the step of a Save that succeeds stores the record and
\* appends at most one audit entry, for that record, and exactly one when the
\* selected log channel is still live and the send is accepted; the record is
\* stored also when the audit send is refused; a Save whose write fails
\* leaves the panel open and appends no audit entry; no other step of the
\* wizard appends one.
C13_WriteThenAudit ==
    [][\A s \in Panels :
         wiz[s].state = "open" =>
            /\ Saves(s) =>
                  LET rec == load_cfg(file')
                      n == Len(sent)
                  IN  /\ RecordOf(wiz[s], rec)
                      /\ resp'[2] = MsgSaved
                      /\ Len(sent') \in {n, n + 1}
                      /\ SubSeq(sent', 1, n) = sent
                      /\ Len(sent') = n + 1 => SaveAudit(sent'[n + 1], rec)
                      /\ (~resp'[3] /\ rec["log_channel_id"][2] \in liveChannels)
                            => Len(sent') = n + 1
            /\ sent' # sent => Saves(s)
            /\ (resp' # resp /\ resp'[2] = MsgNoResponse)
                  => (sent' = sent /\ wiz' = wiz /\ file' \in {file, PartialFile})]_vars

C13_Witness ==
    /\ wiz[1].state = "saved"
    /\ resp[2] = MsgSaved /\ ~resp[3]
    /\ Len(sent) = 1
    /\ SaveAudit(sent[1], load_cfg(file))
    /\ RecordOf(wiz[1], load_cfg(file))

(***************************************************************************)
(* What a Save commits for the fields nobody edited (SpecWizard).          *)
(***************************************************************************)
\* the value a field has in a configuration, with the empty default
Committed(cfg, key) ==
    dict_get(cfg, key, IF key \in {"allowed_role_ids", "excluded_role_ids"}
                       THEN PyList(<<>>) ELSE PyNone)

\* C14 (as claimed): a Save commits, for every field not edited during the
\* session, the value the field had in the configuration loaded when the
\* panel was opened.  A Save that succeeds after one select interaction in
\* all (edits[s] = 1) follows the choice of the log channel, the one field
\* Save insists on, so the other four fields are unedited.
C14_UneditedFieldsKept ==
    [][\A s \in Panels :
         (Saves(s) /\ edits[s] = 1) =>
            \A k \in {"allowed_role_ids", "excluded_role_ids",
                       "admiral_role_id", "war_channel_id"} :
                load_cfg(file')[k] = Committed(wiz[s].cfg, k)]_vars

(***************************************************************************)
(* The reason given to a member holding an excluded role (SpecAuth).       *)
(***************************************************************************)
HoldsExcluded ==
    /\ AuthChecked
    /\ ListedRoles(auth.cfg, "allowed_role_ids") # {}
    /\ auth.roles \cap ListedRoles(auth.cfg, "excluded_role_ids") # {}

\* C16 (as claimed): under a non-empty allowed-role list a member holding an
\* excluded role is denied with the reason "excluded", whether or not the
\* member holds an allowed role.
C16_ExcludedReasonAlways ==
    HoldsExcluded => auth.result = <<FALSE, MsgExcluded>>

\* C16 (amended): under a non-empty allowed-role list a member holding an
\* excluded role is always denied; the reason is "excluded" when the member
\* also holds an allowed role and "missing required role" when the member
\* holds none, that test coming first.
C16_ExcludedDeniedInOrder ==
    HoldsExcluded =>
        auth.result =
            <<FALSE, IF auth.roles \cap ListedRoles(auth.cfg, "allowed_role_ids") # {}
                     THEN MsgExcluded ELSE MsgMissingRole>>

C16_Witness ==
    /\ AuthChecked
    /\ auth.roles = {DefaultRole, R2}
    /\ ListedRoles(auth.cfg, "allowed_role_ids") = {R1}
    /\ ListedRoles(auth.cfg, "excluded_role_ids") = {R2}
    /\ auth.result = <<FALSE, MsgMissingRole>>

(***************************************************************************)
(* What a /declare submission posts (SpecAction).                          *)
(***************************************************************************)
DeclareSubmitted ==
    flow.pc = "modal" /\ flow.kind = "declare" /\ flow'.pc \in {"done", "raised"}

\* C17 (as claimed): a /declare submission that posts puts the announcement
\* in the invoking channel, pinging the target role and, exactly when the
\* stored escalation role is set and live, that role too; when the stored war
\* channel is set and live the same content and embed go there as well, and
\* when it is unset or stale the mirror is left out and the handler answers
\* "Posted" without an error.
C17_StaleDestinationOmitted ==
    [][(DeclareSubmitted /\ Len(sent') > Len(sent)) =>
         LET n == Len(sent)
             admiral == dict_get(flow.cfg, "admiral_role_id", PyNone)
             war == dict_get(flow.cfg, "war_channel_id", PyNone)
             admiral_live == Truthy(admiral) /\ admiral[2] \in liveRoles
             war_live == Truthy(war) /\ war[2] \in liveChannels
             content == IF admiral_live
                        THEN <<RoleMention(flow.target), RoleMention(admiral[2])>>
                        ELSE <<RoleMention(flow.target)>>
         IN  /\ sent'[n + 1].kind = "declare"
             /\ sent'[n + 1].ch = flow.channel
             /\ sent'[n + 1].content = content
             /\ ~war_live =>
                   /\ resp'[2] = MsgPosted
                   /\ \A i \in (n + 1)..Len(sent') : sent'[i].kind # "declare_war"
             /\ (war_live /\ resp'[2] = MsgPosted) =>
                   /\ Len(sent') >= n + 2
                   /\ sent'[n + 2].kind = "declare_war"
                   /\ sent'[n + 2].ch = war[2]
                   /\ sent'[n + 2].content = content
                   /\ sent'[n + 2].embed = sent'[n + 1].embed]_vars

(***************************************************************************)
(* Two panels of one guild at the same time (SpecTwoPanels).               *)
(***************************************************************************)
\* C18: two panels of a guild can be open together; the step of a Save that
\* succeeds stores exactly the record assembled from the selections of the
\* saving panel, signed by the member who pressed Save, whatever the other
\* panel holds or has stored; once both panels are saved the stored record
\* is the one of a single panel, field by field, and stays so.
C18_LastSaveWins ==
    /\ [][\A s \in Sessions :
             Saves(s) =>
                /\ \E now \in Times : file' = save_cfg(new_cfg(wiz[s], resp'[1], now))
                /\ RecordOf(wiz[s], load_cfg(file'))
                /\ load_cfg(file')["updated_by"] = PyInt(resp'[1])
                /\ resp'[1] = wiz[s].invoker]_vars
    /\ []((\A s \in Sessions : wiz[s].state = "saved")
            => \E s \in Sessions :
                  /\ RecordOf(wiz[s], load_cfg(file))
                  /\ load_cfg(file)["updated_by"] = PyInt(wiz[s].invoker))
    /\ [][(\A s \in Sessions : wiz[s].state = "saved") => file' = file]_vars

C18_Witness ==
    /\ wiz[1].state = "saved" /\ wiz[2].state = "saved"
    /\ wiz[1].cfg = wiz[2].cfg
    /\ wiz[1].invoker = Admin1 /\ wiz[2].invoker = Admin2
    /\ wiz[1].allowed_select # <<>> /\ wiz[2].allowed_select = <<>>
    /\ wiz[1].log_select # wiz[2].log_select
    /\ RecordOf(wiz[2], load_cfg(file))
    /\ load_cfg(file)["updated_by"] = PyInt(Admin2)
    /\ load_cfg(file)["allowed_role_ids"] = PyList(<<>>)

(***************************************************************************)
(* Readers and the wizard side by side (SpecLive).                         *)
(***************************************************************************)
CompleteRecord(rec) ==
    DOMAIN rec = {"allowed_role_ids", "excluded_role_ids", "admiral_role_id",
                  "war_channel_id", "log_channel_id", "updated_by", "updated_at"}

\* the step in which write_text raised: nothing but the file and the answer changes
WriteFailed == resp'[2] = MsgNoResponse /\ resp'[3] /\ wiz' = wiz /\ flow' = flow /\ sent' = sent

\* C15: load_cfg always returns either the empty dict (no record) or a
\* complete record; the file changes only in the step of a Save that succeeds,
\* which stores the record of that panel, or in the step of a Save whose
\* write fails, after which load_cfg returns no record; selections, rejected
\* saves, cancels, timeouts and guided actions leave it alone; and the access
\* decision of a guided action is the policy applied to the stored record,
\* which is also the configuration the action carries on with.
C15_ReadersSeeCommitted ==
    /\ [](load_cfg(file) = EmptyDict \/ CompleteRecord(load_cfg(file)))
    /\ [][file' # file =>
             \E s \in Panels :
                /\ wiz[s].state = "open"
                /\ \/ Saves(s) /\ RecordOf(wiz[s], load_cfg(file')) /\ flow' = flow
                   \/ WriteFailed /\ load_cfg(file') = EmptyDict]_vars
    /\ [][(flow.pc = "idle" /\ flow'.pc # "idle") =>
             /\ (flow'.pc = "modal") = Authorized(flow'.roles, load_cfg(file))
             /\ flow'.pc = "modal" => flow'.cfg = load_cfg(file)
             /\ file' = file]_vars

C15_Witness ==
    /\ wiz[1].state = "open"
    /\ wiz[1].allowed_select = <<str(R2)>>
    /\ wiz[1].log_select = <<str(Ch2)>>
    /\ load_cfg(file) = SeedA
    /\ flow.pc = "modal"
    /\ flow.roles = {DefaultRole, R1}
    /\ flow.cfg = SeedA
    /\ resp = <<Member1, MsgModal, FALSE>>

(***************************************************************************)
(* A Save between the two phases of a guided action (SpecSnapshot).        *)
(***************************************************************************)
SnapAdmiral == dict_get(flow.cfg, "admiral_role_id", PyNone)
SnapWar == dict_get(flow.cfg, "war_channel_id", PyNone)

\* C19: whatever is stored by the time the modal is submitted, the
\* submission is handled without a new access decision (it ends done or
\* raised by a refused send, and a handler that ends done has posted in the
\* invoking channel); the configuration the flow carries is the one read in
\* phase 1, and every message of the step is addressed by it: the ping holds
\* the target and the escalation role of that configuration, the mirror goes
\* to its war channel and the audit entry to its log channel.
C19_SubmissionUsesSnapshot ==
    [][(flow.pc = "modal" /\ flow' # flow /\ flow'.pc # "expired") =>
         LET n == Len(sent)
             content == IF Truthy(SnapAdmiral)
                        THEN <<RoleMention(flow.target), RoleMention(SnapAdmiral[2])>>
                        ELSE <<RoleMention(flow.target)>>
             Kinds == {sent'[i].kind : i \in (n + 1)..Len(sent')}
         IN  /\ flow'.pc \in {"done", "raised"}
             /\ flow'.cfg = flow.cfg
             /\ resp'[2] \in {MsgPosted, MsgNoResponse}
             /\ SubSeq(sent', 1, n) = sent
             /\ flow'.pc = "done" =>
                   /\ Len(sent') > n
                   /\ sent'[n + 1].kind = flow.kind
                   /\ sent'[n + 1].ch = flow.channel
                   /\ (flow.kind = "declare" /\ Truthy(SnapWar) /\ SnapWar[2] \in liveChannels)
                         => "declare_war" \in Kinds
                   /\ (Truthy(LogChannel(flow.cfg)) /\ LogChannel(flow.cfg)[2] \in liveChannels)
                         => "audit" \in Kinds
             /\ \A i \in (n + 1)..Len(sent') :
                   LET m == sent'[i]
                   IN  /\ m.kind \in {"declare", "declare_war"} => m.content = content
                       /\ m.kind = "declare_war" => PyInt(m.ch) = SnapWar
                       /\ m.kind = "audit" => PyInt(m.ch) = LogChannel(flow.cfg)]_vars

C19_Witness ==
    /\ flow.pc = "done" /\ flow.kind = "declare"
    /\ flow.cfg = SeedA
    /\ ~Authorized(flow.roles, load_cfg(file))
    /\ load_cfg(file)["admiral_role_id"] = PyNone
    /\ load_cfg(file)["war_channel_id"] = PyNone
    /\ load_cfg(file)["log_channel_id"] = PyInt(Ch2)
    /\ Len(sent) = 4
    /\ sent[1].kind = "audit" /\ sent[1].content[1] = "Configuration updated"
    /\ sent[2].kind = "declare"
    /\ sent[2].content = <<RoleMention(R1), RoleMention(R2)>>
    /\ sent[3].kind = "declare_war" /\ sent[3].ch = Ch2
    /\ sent[4].kind = "audit" /\ sent[4].ch = Ch1

====
